---- MODULE Spec2Model ----
(***************************************************************************)
(* Model of the Enderfall Hub backend commands (src-tauri/src/main.rs):    *)
(* the payload acquirer (copy_installer, download_installer), the          *)
(* installation orchestrator (install_msi_payload), the shortcut manager   *)
(* (create_shortcut, create_shortcuts), the uninstaller (uninstall_app),   *)
(* the dev launcher (run_dev_app) and the preferences store                *)
(* (load/write/get/set_hub_preferences) together with the window event     *)
(* handler that reads the shared preferences cache.                        *)
(*                                                                         *)
(* The specifications share the variables: SpecCopy, SpecDownload,         *)
(* SpecInstall, SpecLaunch, SpecLoad, SpecPrefs and SpecConc.  Each one    *)
(* moves only the variables of its own subsystem.                          *)
(***************************************************************************)
EXTENDS Integers, Sequences, FiniteSets, TLC

VARIABLES
  \* ---- observation of the most recent command (all subsystems) ----
  op,        \* the command that ran last, with its arguments and I/O faults
  result,    \* what it returned: [status, err, value]
  emitted,   \* the "installer-progress" events it emitted, in order
  steps,     \* the side effects it performed, in order
  prev,      \* the uninstall_app call delivered just before it, if any
  \* ---- payload acquirer ----
  files,     \* the file system seen by copy_installer: path -> [exists, data]
  \* ---- orchestrator, shortcut manager, uninstaller ----
  dirs,      \* install directories: name -> [exists, files]
  shortcuts, \* path of a .lnk file -> [exists, target, workdir]
  folder,    \* kind -> does the parent folder of the .lnk files exist
  env,       \* [desktop, appdata]: do desktop_dir() / APPDATA resolve
  \* ---- preferences store and window handler ----
  prefsFile,    \* content of preferences.json
  localDataDir, \* does tauri::api::path::local_data_dir() resolve
  systemTray,   \* is the build made with feature "system-tray"
  cache,        \* AppState.prefs
  pc,           \* per call of set_hub_preferences: its position
  update,       \* per call: the HubPreferencesUpdate argument
  prefs,        \* per call: the local `prefs`
  ret,          \* per call: how it returned: "none", "ok", "err"
  window,       \* the main window: "visible", "minimized", "hidden", "closed"
  lastRet,      \* the record returned by the latest successful set call
  \* ---- dev launcher ----
  procs         \* the child processes spawned by run_dev_app, in order

obsVars   == <<op, result, emitted, steps, prev>>
copyVars  == <<files>>
instVars  == <<dirs, shortcuts, folder, env>>
prefsVars == <<prefsFile, localDataDir, systemTray, cache, pc, update, prefs,
               ret, window, lastRet>>
launchVars == <<procs>>
vars      == <<op, result, emitted, steps, prev, files, dirs, shortcuts, folder, env,
               prefsFile, localDataDir, systemTray, cache, pc, update, prefs,
               ret, window, lastRet, procs>>

-----------------------------------------------------------------------------
(* Results and progress values                                             *)

Ok(v)    == [status |-> "ok",    err |-> "",  value |-> v]
Err(e)   == [status |-> "err",   err |-> e,   value |-> <<>>]
Panicked == [status |-> "panic", err |-> "",  value |-> <<>>]
NoResult == [status |-> "none",  err |-> "",  value |-> <<>>]

\* A progress value is the fraction num/den (the code computes an f64).
Frac(n, d)  == [num |-> n, den |-> d]
FracLeq(a, b) == a.num * b.den <= b.num * a.den
FracEq(a, b)  == a.num * b.den = b.num * a.den
One         == Frac(1, 1)

\* window.emit("installer-progress", {appId, progress}); a failed delivery
\* is ignored (let _ =).
Emit(ems, app_id, progress) == Append(ems, [appId |-> app_id, progress |-> progress])

Min(a, b) == IF a <= b THEN a ELSE b

NoOp == [name |-> "none"]
NoPrev == [name |-> "none", args |-> <<>>, status |-> "none"]

\* No command is running and the response of the last one was delivered.
Idle == op.name = "none"

\* The response of the command goes to the caller (the handler generated by
\* #[tauri::command] resolves the invoke); the next command can start.
Deliver ==
  /\ ~Idle
  /\ prev' = IF op.name = "uninstall_app"
             THEN [name |-> op.name, args |-> <<op.install_dir, op.app_name>>,
                   status |-> result.status]
             ELSE NoPrev
  /\ op' = NoOp
  /\ result' = NoResult
  /\ emitted' = <<>>
  /\ steps' = <<>>
  /\ UNCHANGED <<copyVars, launchVars, instVars, prefsVars>>

-----------------------------------------------------------------------------
(* Payload acquirer: copy_installer                                        *)

\* Bounds of the file model.
MaxFileLen == 3
Bytes      == {0, 1}
\* The read buffer is 1024 * 1024 bytes in the code; the model scales it
\* down so that files of one, two and three bytes need one or two chunks.
BufferLen  == 2

FileDirs   == {"downloads", "staging"}
FileNames  == {"setup.msi"}
\* ".." stands for a source path without a file-name component.
SourceNames == FileNames \cup {".."}
FilePaths  == FileDirs \X FileNames
AppIds     == {"app"}

SeqsUpTo(S, n) == UNION {[1..k -> S] : k \in 0..n}
Absent     == [exists |-> FALSE, data |-> <<>>]
FileStates == {Absent} \cup {[exists |-> TRUE, data |-> d] : d \in SeqsUpTo(Bytes, MaxFileLen)}

\* Path::exists(): a directory path ("dir/..") exists, a file path exists
\* when the file does.
SourceExists(fs, source) ==
  IF source[2] = ".." THEN TRUE ELSE fs[source].exists

\* Faults the operating system can inject into one run of copy_installer.
MaxChunks  == (MaxFileLen + BufferLen - 1) \div BufferLen
CopyFaults == {[kind |-> "none", at |-> 0], [kind |-> "open", at |-> 0],
               [kind |-> "create", at |-> 0], [kind |-> "flush", at |-> 0]}
              \cup {[kind |-> k, at |-> i] : k \in {"read", "write"}, i \in 1..(MaxChunks + 1)}

\* input.read(&mut buffer): the next at most BufferLen bytes at the read
\* position of the source, as the file is now.
ReadChunk(fs, source, pos) ==
  LET d == fs[source].data
      n == IF Len(d) > pos THEN Min(BufferLen, Len(d) - pos) ELSE 0
  IN SubSeq(d, pos + 1, pos + n)

\* let progress = if total == 0 { 1.0 } else { copied as f64 / total as f64 };
CopyProgress(copied, total) == IF total = 0 THEN One ELSE Frac(copied, total)

\* The loop of copy_installer; k counts the reads.
RECURSIVE CopyLoop(_, _, _, _, _, _, _, _, _)
CopyLoop(fs, source, destination, app_id, total, copied, ems, fault, k) ==
  IF fault = [kind |-> "read", at |-> k]
  THEN [fs |-> fs, emitted |-> ems, result |-> Err("read"), reads |-> k - 1]
  ELSE LET buffer == ReadChunk(fs, source, copied)
           read   == Len(buffer)
       IN IF read = 0
          THEN [fs |-> fs, emitted |-> ems,
                result |-> IF fault.kind = "flush" THEN Err("flush") ELSE Ok(destination),
                reads |-> k - 1]
          ELSE IF fault = [kind |-> "write", at |-> k]
          THEN [fs |-> fs, emitted |-> ems, result |-> Err("write"), reads |-> k]
          ELSE LET fs2     == [fs EXCEPT ![destination].data = @ \o buffer]
                   copied2 == copied + read
               IN CopyLoop(fs2, source, destination, app_id, total, copied2,
                           Emit(ems, app_id, CopyProgress(copied2, total)), fault, k + 1)

\* File::create(&destination): creates the file or truncates it.
FileCreate(fs, path) == [fs EXCEPT ![path] = [exists |-> TRUE, data |-> <<>>]]

\* The whole command.  Yields [fs, emitted, result, reads].
CopyInstaller(fs, app_id, source, destination_dir, fault) ==
  IF ~SourceExists(fs, source)
  THEN [fs |-> fs, emitted |-> <<>>, result |-> Err("Installer not found."), reads |-> 0]
  ELSE IF source[2] = ".."
  THEN [fs |-> fs, emitted |-> <<>>, result |-> Err("Installer filename missing."), reads |-> 0]
  ELSE LET destination == <<destination_dir, source[2]>>
       IN IF fault.kind = "open"
          THEN [fs |-> fs, emitted |-> <<>>, result |-> Err("open"), reads |-> 0]
          ELSE LET total == Len(fs[source].data)
               IN IF fault.kind = "create"
                  THEN [fs |-> fs, emitted |-> <<>>, result |-> Err("create"), reads |-> 0]
                  ELSE CopyLoop(FileCreate(fs, destination), source, destination,
                                app_id, total, 0, <<>>, fault, 1)

copy_installer(app_id, source, destination_dir, fault) ==
  LET r == CopyInstaller(files, app_id, source, destination_dir, fault)
  IN /\ Idle
     \* a fault is drawn only where the run meets it
     /\ fault.kind = "none" \/ r.result = Err(fault.kind)
     /\ files'   = r.fs
     /\ op'      = [name |-> "copy_installer", app_id |-> app_id, source |-> source,
                    destination_dir |-> destination_dir, fault |-> fault,
                    reads |-> r.reads]
     /\ result'  = r.result
     /\ emitted' = r.emitted
     /\ steps'   = <<>>
     /\ UNCHANGED <<prev, instVars, prefsVars, launchVars>>

-----------------------------------------------------------------------------
(* Payload acquirer: download_installer                                    *)

\* A URL as its parts between '/' (url.split('/')); the second one ends
\* with '/'.
Urls == {<<"https:", "", "cdn.example", "app", "setup.msi">>,
         <<"https:", "", "cdn.example", "app", "">>}

\* url.split('/').last().filter(|name| !name.is_empty()).unwrap_or("installer.bin")
UrlFileName(url) ==
  LET name == url[Len(url)]
  IN IF name # "" THEN name ELSE "installer.bin"

DownloadDirs  == {"downloads"}
DownloadPaths == {<<d, UrlFileName(u)>> : d \in DownloadDirs, u \in Urls}

Statuses == {200, 404, 500}

\* Variant of IsSuccess that takes every status as a success.
IsSuccess_Any(status) == TRUE

\* StatusCode::is_success(): 200..=299
IsSuccess(status) == status >= 200 /\ status <= 299

\* format!("Failed to download installer: {}", response.status())
StatusError(status) ==
  CASE status = 200 -> "Failed to download installer: 200 OK"
    [] status = 404 -> "Failed to download installer: 404 Not Found"
    [] status = 500 -> "Failed to download installer: 500 Internal Server Error"

\* response.content_length(): Option<u64>
NoLength  == [known |-> FALSE, len |-> 0]
Length(n) == [known |-> TRUE, len |-> n]

\* The responses a server can give: a status, a body, and a content length
\* that is either not known or the length of the body.
Responses ==
  {r \in [status : Statuses,
          length : {NoLength} \cup {Length(n) : n \in 0..MaxFileLen},
          body   : SeqsUpTo(Bytes, MaxFileLen)] :
     r.length.known => r.length.len = Len(r.body)}
NoResponse == [status |-> 0, length |-> NoLength, body |-> <<>>]

\* let total = response.content_length().unwrap_or(0);
TotalOf(length) == IF length.known THEN length.len ELSE 0

\* The read buffer is 1024 * 256 bytes in the code; the model scales it down.
DownloadBufferLen == 2

\* Faults of one run of download_installer.
DownloadFaults ==
  {[kind |-> k, at |-> 0] : k \in {"none", "create_dir_all", "send", "create", "flush"}}
    \cup {[kind |-> k, at |-> i] : k \in {"read", "write"}, i \in 1..(MaxFileLen + 1)}

\* response.read(&mut buffer): the next bytes of the body, at most readLen of
\* them (a read from the network may fill less than the buffer).
ReadBody(body, pos, readLen) ==
  LET n == IF Len(body) > pos THEN Min(readLen, Len(body) - pos) ELSE 0
  IN SubSeq(body, pos + 1, pos + n)

\* (copied as f64 / total as f64).min(1.0)
DownloadProgress(copied, total) ==
  IF copied >= total THEN One ELSE Frac(copied, total)

\* Variant of EmitDownloadProgress that reports an unknown total as done,
\* the way copy_installer does.
EmitDownloadProgress_Always(ems, app_id, copied, total) ==
  Emit(ems, app_id, IF total > 0 THEN DownloadProgress(copied, total) ELSE One)

\* if total > 0 { let progress = ...; let _ = window.emit(...); }
EmitDownloadProgress(ems, app_id, copied, total) ==
  IF total > 0 THEN Emit(ems, app_id, DownloadProgress(copied, total)) ELSE ems

\* The loop of download_installer; k counts the reads.
RECURSIVE DownloadLoop(_, _, _, _, _, _, _, _, _, _)
DownloadLoop(fs, destination, app_id, body, total, copied, ems, fault, readLen, k) ==
  IF fault = [kind |-> "read", at |-> k]
  THEN [fs |-> fs, emitted |-> ems, result |-> Err("read"), reads |-> k - 1]
  ELSE LET buffer == ReadBody(body, copied, readLen)
           read   == Len(buffer)
       IN IF read = 0
          THEN [fs |-> fs, emitted |-> ems,
                result |-> IF fault.kind = "flush" THEN Err("flush") ELSE Ok(destination),
                reads |-> k - 1]
          ELSE IF fault = [kind |-> "write", at |-> k]
          THEN [fs |-> fs, emitted |-> ems, result |-> Err("write"), reads |-> k]
          ELSE LET fs2     == [fs EXCEPT ![destination].data = @ \o buffer]
                   copied2 == copied + read
               IN DownloadLoop(fs2, destination, app_id, body, total, copied2,
                               EmitDownloadProgress(ems, app_id, copied2, total),
                               fault, readLen, k + 1)

\* The whole command.  Yields [fs, emitted, result, reads].
DownloadInstaller(fs, app_id, url, destination_dir, response, fault, readLen) ==
  IF fault.kind = "create_dir_all"
  THEN [fs |-> fs, emitted |-> <<>>, result |-> Err("create_dir_all"), reads |-> 0]
  ELSE LET destination == <<destination_dir, UrlFileName(url)>>
       IN IF fault.kind = "send"
          THEN [fs |-> fs, emitted |-> <<>>, result |-> Err("send"), reads |-> 0]
          ELSE IF ~IsSuccess(response.status)
          THEN [fs |-> fs, emitted |-> <<>>, result |-> Err(StatusError(response.status)),
                reads |-> 0]
          ELSE LET total == TotalOf(response.length)
               IN IF fault.kind = "create"
                  THEN [fs |-> fs, emitted |-> <<>>, result |-> Err("create"), reads |-> 0]
                  ELSE DownloadLoop(FileCreate(fs, destination), destination, app_id,
                                    response.body, total, 0, <<>>, fault, readLen, 1)

download_installer(app_id, url, destination_dir) ==
  /\ Idle
  /\ \E fault \in DownloadFaults :
     \E response \in IF fault.kind \in {"create_dir_all", "send"}
                     THEN {NoResponse} ELSE Responses :
     \E readLen \in IF Len(response.body) >= DownloadBufferLen /\ fault.kind # "create"
                    THEN 1..DownloadBufferLen ELSE {DownloadBufferLen} :
       LET r == DownloadInstaller(files, app_id, url, destination_dir, response, fault,
                                  readLen)
       IN \* a fault is drawn only where the run meets it, and of a response
          \* without success only the status is looked at
          /\ fault.kind = "none" \/ r.result = Err(fault.kind)
          /\ IsSuccess(response.status)
               \/ (response.body = <<>> /\ response.length = NoLength)
          /\ files'   = r.fs
          /\ op'      = [name |-> "download_installer", app_id |-> app_id, url |-> url,
                         destination_dir |-> destination_dir, response |-> response,
                         fault |-> fault, readLen |-> readLen, reads |-> r.reads]
          /\ result'  = r.result
          /\ emitted' = r.emitted
          /\ steps'   = <<>>
  /\ UNCHANGED <<prev, instVars, prefsVars, launchVars>>

-----------------------------------------------------------------------------
(* Shortcut manager, orchestrator, uninstaller                             *)

InstallDirs    == {"C:/Apps/App"}
PayloadFiles   == {"app.exe", "data.bin"}
ExeNames       == {"app.exe", "ghost.exe"}
AppNames       == {"App", "Tool"}
Kinds          == {"desktop", "startmenu"}
InstallerPaths == {"good.msi", "notes.txt", "gone.msi"}

\* What lies at an installer path: an MSI package, a file that is not an MSI
\* package, or nothing.
InstallerFile(path) ==
  CASE path = "good.msi"  -> "msi"
    [] path = "notes.txt" -> "notmsi"
    [] OTHER              -> "missing"

NoDir      == [exists |-> FALSE, files |-> {}]
NoShortcut == [exists |-> FALSE, target |-> <<>>, workdir |-> ""]
Step(act, arg, res) == [act |-> act, arg |-> arg, res |-> res]

\* format!("{}.lnk", app_name)
LnkName(app_name) ==
  CASE app_name = "App"  -> "App.lnk"
    [] app_name = "Tool" -> "Tool.lnk"

\* The path at which create_shortcuts and install_msi_payload save the
\* shortcut of a kind: desktop_dir()/<app_name>.lnk, or
\* %APPDATA%/Microsoft/Windows/Start Menu/Programs/Enderfall/<app_name>.lnk.
ShortcutPath(kind, app_name) ==
  IF kind = "desktop"
  THEN <<"desktop_dir", LnkName(app_name)>>
  ELSE <<"APPDATA", "Microsoft", "Windows", "Start Menu", "Programs", "Enderfall",
         LnkName(app_name)>>

\* Variant of RemovedShortcutPath that looks for the start-menu shortcut in
\* the folder named like the preferences folder.
RemovedShortcutPath_OtherFolder(kind, app_name) ==
  IF kind = "desktop"
  THEN <<"desktop_dir", LnkName(app_name)>>
  ELSE <<"APPDATA", "Microsoft", "Windows", "Start Menu", "Programs", "EnderFall",
         LnkName(app_name)>>

\* The path at which uninstall_app looks for the shortcut of a kind.
RemovedShortcutPath(kind, app_name) ==
  IF kind = "desktop"
  THEN <<"desktop_dir", LnkName(app_name)>>
  ELSE <<"APPDATA", "Microsoft", "Windows", "Start Menu", "Programs", "Enderfall",
         LnkName(app_name)>>

\* Every path at which the commands look for or save a shortcut.
ShortcutPaths ==
  {ShortcutPath(k, a) : k \in Kinds, a \in AppNames}
    \cup {RemovedShortcutPath(k, a) : k \in Kinds, a \in AppNames}

\* How one call of create_shortcut can end: the shortcut is saved, the parent
\* folder cannot be created, powershell cannot be started, or powershell
\* runs and the script fails (its exit status is not looked at).
ShortcutOutcomes == {"created", "mkdir_err", "spawn_err", "script_fail"}

\* Variant of create_shortcut that looks at the exit status of PowerShell.
create_shortcut_ChecksStatus(sc, fo, kind, app_name, target_path, working_dir, outcome) ==
  IF ~fo[kind] /\ outcome = "mkdir_err"
  THEN [shortcuts |-> sc, folder |-> fo, res |-> Err("create_dir_all"), how |-> "mkdir_err"]
  ELSE LET fo2 == [fo EXCEPT ![kind] = TRUE]
       IN IF outcome = "spawn_err"
          THEN [shortcuts |-> sc, folder |-> fo2, res |-> Err("powershell"), how |-> "spawn_err"]
          ELSE IF outcome = "script_fail"
          THEN [shortcuts |-> sc, folder |-> fo2, res |-> Err("exit status"), how |-> "script_fail"]
          ELSE [shortcuts |-> [sc EXCEPT ![ShortcutPath(kind, app_name)] =
                                 [exists |-> TRUE, target |-> target_path,
                                  workdir |-> working_dir]],
                folder |-> fo2, res |-> Ok(<<>>), how |-> "created"]

\* create_shortcut(shortcut_path, target_path, working_dir), with
\* shortcut_path = <base of kind>/<app_name>.lnk.
\* Yields [shortcuts, folder, res, how].
create_shortcut(sc, fo, kind, app_name, target_path, working_dir, outcome) ==
  IF ~fo[kind] /\ outcome = "mkdir_err"
  THEN [shortcuts |-> sc, folder |-> fo, res |-> Err("create_dir_all"), how |-> "mkdir_err"]
  ELSE LET fo2 == [fo EXCEPT ![kind] = TRUE]
       IN IF outcome = "spawn_err"
          THEN [shortcuts |-> sc, folder |-> fo2, res |-> Err("powershell"), how |-> "spawn_err"]
          ELSE IF outcome = "script_fail"
          THEN [shortcuts |-> sc, folder |-> fo2, res |-> Ok(<<>>), how |-> "script_fail"]
          ELSE [shortcuts |-> [sc EXCEPT ![ShortcutPath(kind, app_name)] =
                                 [exists |-> TRUE, target |-> target_path,
                                  workdir |-> working_dir]],
                folder |-> fo2, res |-> Ok(<<>>), how |-> "created"]

\* Does the base directory of a shortcut kind resolve:
\* tauri::api::path::desktop_dir() is Some / std::env::var("APPDATA") is Ok.
BaseResolves(e, kind) == IF kind = "desktop" THEN e.desktop ELSE e.appdata

\* Variant of LinkOne in which a requested kind whose base directory does
\* not resolve is an error.
LinkOne_MissingBaseFails(sc, fo, e, kind, wanted, app_name, target_path, working_dir, outcome) ==
  IF wanted /\ ~BaseResolves(e, kind)
  THEN [shortcuts |-> sc, folder |-> fo, res |-> Err("Missing base directory"),
        steps |-> <<>>]
  ELSE IF wanted
  THEN LET c == create_shortcut(sc, fo, kind, app_name, target_path, working_dir, outcome)
       IN [shortcuts |-> c.shortcuts, folder |-> c.folder, res |-> c.res,
           steps |-> <<Step("create_shortcut", kind, c.how)>>]
  ELSE [shortcuts |-> sc, folder |-> fo, res |-> Ok(<<>>), steps |-> <<>>]

\* One `if create_<kind>_shortcut { if let Some(base) = ... { create_shortcut(..)?; } }`
\* block.  Yields [shortcuts, folder, res, steps].
LinkOne(sc, fo, e, kind, wanted, app_name, target_path, working_dir, outcome) ==
  IF wanted /\ BaseResolves(e, kind)
  THEN LET c == create_shortcut(sc, fo, kind, app_name, target_path, working_dir, outcome)
       IN [shortcuts |-> c.shortcuts, folder |-> c.folder, res |-> c.res,
           steps |-> <<Step("create_shortcut", kind, c.how)>>]
  ELSE [shortcuts |-> sc, folder |-> fo, res |-> Ok(<<>>), steps |-> <<>>]

\* The desktop block followed by the start-menu block; `?` returns at the
\* first Err.
Linking(sc, fo, e, app_name, target_path, working_dir, desk, start, outcome) ==
  LET d == LinkOne(sc, fo, e, "desktop", desk, app_name, target_path, working_dir,
                   outcome["desktop"])
  IN IF d.res.status = "err" THEN d
     ELSE LET s == LinkOne(d.shortcuts, d.folder, e, "startmenu", start, app_name,
                           target_path, working_dir, outcome["startmenu"])
          IN [s EXCEPT !.steps = d.steps \o @]

\* The progress values of install_msi_payload: after the install directory
\* is created, after the extraction, at the end.
ProgressPrepared  == Frac(1, 10)
ProgressExtracted_Half == Frac(50, 100)
ProgressExtracted == Frac(85, 100)
ProgressDone      == One

\* extractor.to(&install_path): unpacks the payload.  Its outcome is not
\* looked at by the caller; when it fails, some of the files are there and
\* the call either returns or panics.
ToOutcomes == {"ok", "fail_return", "fail_panic"}

\* install_msi_payload.  fault = [mkdir, to, part, sc].
\* Yields [dirs, shortcuts, folder, result, emitted, steps].
InstallMsiPayload(ds, sc, fo, e, app_id, installer_path, install_dir, exe_name, app_name, desk, start, fault) ==
  LET base == [dirs |-> ds, shortcuts |-> sc, folder |-> fo]
      Out(b, res, ems, sts) ==
        [dirs |-> b.dirs, shortcuts |-> b.shortcuts, folder |-> b.folder,
         result |-> res, emitted |-> ems, steps |-> sts]
  IN IF InstallerFile(installer_path) = "missing"
     THEN Out(base, Err("Installer not found."), <<>>, <<Step("exists", installer_path, "no")>>)
     ELSE
     LET st1 == <<Step("exists", installer_path, "yes")>>
     IN IF fault.mkdir
        THEN Out(base, Err("create_dir_all"), <<>>,
                 Append(st1, Step("create_dir_all", install_dir, "err")))
        ELSE
        LET ds2  == [ds EXCEPT ![install_dir].exists = TRUE]
            b2   == [base EXCEPT !.dirs = ds2]
            em2  == Emit(<<>>, app_id, ProgressPrepared)
            st2  == st1 \o <<Step("create_dir_all", install_dir, "ok"),
                             Step("emit", "0.1", "ok")>>
        IN IF InstallerFile(installer_path) = "notmsi"
           THEN Out(b2, Err("from_path"), em2, Append(st2, Step("from_path", installer_path, "err")))
           ELSE
           LET st3  == Append(st2, Step("from_path", installer_path, "ok"))
               got3 == IF fault.to = "ok" THEN PayloadFiles ELSE fault.part
               ds3  == [ds2 EXCEPT ![install_dir].files = @ \cup got3]
               b3   == [b2 EXCEPT !.dirs = ds3]
           IN IF fault.to = "fail_panic"
              THEN Out(b3, Panicked, em2, Append(st3, Step("to", install_dir, "panic")))
              ELSE
              LET st4 == st3 \o <<Step("to", install_dir,
                                       IF fault.to = "ok" THEN "ok" ELSE "failed"),
                                  Step("emit", "0.85", "ok")>>
                  em4 == Emit(em2, app_id, ProgressExtracted)
                  exe_path == <<install_dir, exe_name>>
                  l   == Linking(sc, fo, e, app_name, exe_path, install_dir, desk, start,
                                 fault.sc)
                  b5  == [b3 EXCEPT !.shortcuts = l.shortcuts, !.folder = l.folder]
              IN IF l.res.status = "err"
                 THEN Out(b5, l.res, em4, st4 \o l.steps)
                 ELSE Out(b5, Ok(<<>>), Emit(em4, app_id, ProgressDone),
                          st4 \o l.steps \o <<Step("emit", "1.0", "ok")>>)

\* Path::exists() of an executable path <<dir, name>>.
ExeExists(ds, exe_path) == ds[exe_path[1]].exists /\ exe_path[2] \in ds[exe_path[1]].files

\* create_shortcuts.  Yields [shortcuts, folder, result, steps].
CreateShortcuts(ds, sc, fo, e, exe_path, app_name, desk, start, outcome) ==
  IF ~ExeExists(ds, exe_path)
  THEN [shortcuts |-> sc, folder |-> fo, result |-> Err("Executable not found."),
        steps |-> <<>>]
  ELSE LET l == Linking(sc, fo, e, app_name, exe_path, exe_path[1], desk, start, outcome)
       IN [shortcuts |-> l.shortcuts, folder |-> l.folder, result |-> l.res,
           steps |-> l.steps]

\* One `if let <base> { if shortcut.exists() { let _ = remove_file(shortcut); } }`
\* block of uninstall_app.  Yields [shortcuts, steps].
UnlinkOne(sc, e, kind, app_name, rmfails) ==
  IF BaseResolves(e, kind) /\ sc[RemovedShortcutPath(kind, app_name)].exists
  THEN IF rmfails
       THEN [shortcuts |-> sc, steps |-> <<Step("remove_file", kind, "err")>>]
       ELSE [shortcuts |-> [sc EXCEPT ![RemovedShortcutPath(kind, app_name)] = NoShortcut],
             steps |-> <<Step("remove_file", kind, "ok")>>]
  ELSE [shortcuts |-> sc, steps |-> <<>>]

\* Variant of RemoveInstallDir without the exists() test: removing a
\* directory that is not there is an error.
RemoveInstallDir_AbsentIsError(ds, install_dir, fault) ==
  IF ~ds[install_dir].exists
  THEN [dirs |-> ds, res |-> Err("remove_dir_all"),
        steps |-> <<Step("remove_dir_all", install_dir, "err")>>]
  ELSE IF fault.rmdir
  THEN [dirs |-> [ds EXCEPT ![install_dir].files = @ \cap fault.left],
        res |-> Err("remove_dir_all"),
        steps |-> <<Step("remove_dir_all", install_dir, "err")>>]
  ELSE [dirs |-> [ds EXCEPT ![install_dir] = NoDir], res |-> Ok(<<>>),
        steps |-> <<Step("remove_dir_all", install_dir, "ok")>>]

\* `if install_path.exists() { remove_dir_all(&install_path)?; }`; a failed
\* removal may have removed some of the files.  Yields [dirs, res, steps].
RemoveInstallDir(ds, install_dir, fault) ==
  IF ~ds[install_dir].exists
  THEN [dirs |-> ds, res |-> Ok(<<>>), steps |-> <<>>]
  ELSE IF fault.rmdir
  THEN [dirs |-> [ds EXCEPT ![install_dir].files = @ \cap fault.left],
        res |-> Err("remove_dir_all"),
        steps |-> <<Step("remove_dir_all", install_dir, "err")>>]
  ELSE [dirs |-> [ds EXCEPT ![install_dir] = NoDir], res |-> Ok(<<>>),
        steps |-> <<Step("remove_dir_all", install_dir, "ok")>>]

\* Variant of uninstall_app that goes on to the shortcuts after a failed
\* removal of the directory.
UninstallApp_GoesOn(ds, sc, e, install_dir, app_name, fault) ==
  LET r == RemoveInstallDir(ds, install_dir, fault)
      d == UnlinkOne(sc, e, "desktop", app_name, fault.rm["desktop"])
      s == UnlinkOne(d.shortcuts, e, "startmenu", app_name, fault.rm["startmenu"])
  IN [dirs |-> r.dirs, shortcuts |-> s.shortcuts, result |-> r.res,
      steps |-> r.steps \o d.steps \o s.steps]

\* uninstall_app.  fault = [rmdir, left, rm].
\* Yields [dirs, shortcuts, result, steps].
UninstallApp(ds, sc, e, install_dir, app_name, fault) ==
  LET r == RemoveInstallDir(ds, install_dir, fault)
  IN IF r.res.status = "err"
     THEN [dirs |-> r.dirs, shortcuts |-> sc, result |-> r.res, steps |-> r.steps]
     ELSE LET d == UnlinkOne(sc, e, "desktop", app_name, fault.rm["desktop"])
              s == UnlinkOne(d.shortcuts, e, "startmenu", app_name, fault.rm["startmenu"])
          IN [dirs |-> r.dirs, shortcuts |-> s.shortcuts, result |-> Ok(<<>>),
              steps |-> r.steps \o d.steps \o s.steps]

\* The faults are drawn only where the run can meet them, so that equal runs
\* are not told apart by faults that never happened.
ShortcutFaults(kind, attempted) ==
  IF attempted /\ BaseResolves(env, kind)
  THEN IF folder[kind] THEN ShortcutOutcomes \ {"mkdir_err"} ELSE ShortcutOutcomes
  ELSE {"created"}
StopsLinking(outcome) == outcome \in {"mkdir_err", "spawn_err"}

install_msi_payload(app_id, installer_path, install_dir, exe_name, app_name, desk, start) ==
  /\ Idle
  /\ \E mkdir \in IF InstallerFile(installer_path) = "missing" THEN {FALSE} ELSE BOOLEAN :
     \E to \in IF mkdir \/ InstallerFile(installer_path) # "msi" THEN {"ok"} ELSE ToOutcomes :
     \E part \in IF to = "ok" THEN {{}} ELSE (SUBSET PayloadFiles) \ {PayloadFiles} :
     \E od \in ShortcutFaults("desktop",
                 InstallerFile(installer_path) = "msi" /\ ~mkdir /\ to # "fail_panic" /\ desk) :
     \E os \in ShortcutFaults("startmenu",
                 InstallerFile(installer_path) = "msi" /\ ~mkdir /\ to # "fail_panic" /\ start
                 /\ ~StopsLinking(od)) :
       LET fault == [mkdir |-> mkdir, to |-> to, part |-> part,
                     sc |-> [k \in Kinds |-> IF k = "desktop" THEN od ELSE os]]
           r == InstallMsiPayload(dirs, shortcuts, folder, env, app_id, installer_path,
                                  install_dir, exe_name, app_name, desk, start, fault)
       IN /\ dirs'      = r.dirs
          /\ shortcuts' = r.shortcuts
          /\ folder'    = r.folder
          /\ result'    = r.result
          /\ emitted'   = r.emitted
          /\ steps'     = r.steps
          /\ op' = [name |-> "install_msi_payload", app_id |-> app_id,
                    installer_path |-> installer_path, install_dir |-> install_dir,
                    exe_name |-> exe_name, app_name |-> app_name,
                    desk |-> desk, start |-> start, fault |-> fault]
  /\ UNCHANGED <<prev, env, copyVars, launchVars, prefsVars>>

create_shortcuts(exe_path, app_name, desk, start) ==
  /\ Idle
  /\ \E od \in ShortcutFaults("desktop", ExeExists(dirs, exe_path) /\ desk) :
     \E os \in ShortcutFaults("startmenu", ExeExists(dirs, exe_path) /\ start
                                           /\ ~StopsLinking(od)) :
       LET out == [k \in Kinds |-> IF k = "desktop" THEN od ELSE os]
           r == CreateShortcuts(dirs, shortcuts, folder, env, exe_path, app_name,
                                desk, start, out)
       IN /\ shortcuts' = r.shortcuts
          /\ folder'    = r.folder
          /\ result'    = r.result
          /\ steps'     = r.steps
          /\ emitted'   = <<>>
          /\ op' = [name |-> "create_shortcuts", exe_path |-> exe_path,
                    app_name |-> app_name, desk |-> desk, start |-> start,
                    fault |-> out]
  /\ UNCHANGED <<prev, dirs, env, copyVars, launchVars, prefsVars>>

uninstall_app(install_dir, app_name) ==
  /\ Idle
  /\ \E rmdir \in IF dirs[install_dir].exists THEN BOOLEAN ELSE {FALSE} :
     \E left \in IF rmdir THEN SUBSET dirs[install_dir].files ELSE {{}} :
     \E rd \in IF ~rmdir /\ env.desktop /\ shortcuts[RemovedShortcutPath("desktop", app_name)].exists
               THEN BOOLEAN ELSE {FALSE} :
     \E rs \in IF ~rmdir /\ env.appdata /\ shortcuts[RemovedShortcutPath("startmenu", app_name)].exists
               THEN BOOLEAN ELSE {FALSE} :
       LET fault == [rmdir |-> rmdir, left |-> left,
                     rm |-> [k \in Kinds |-> IF k = "desktop" THEN rd ELSE rs]]
           r == UninstallApp(dirs, shortcuts, env, install_dir, app_name, fault)
       IN /\ dirs'      = r.dirs
          /\ shortcuts' = r.shortcuts
          /\ result'    = r.result
          /\ steps'     = r.steps
          /\ emitted'   = <<>>
          /\ op' = [name |-> "uninstall_app", install_dir |-> install_dir,
                    app_name |-> app_name, fault |-> fault]
  /\ UNCHANGED <<prev, folder, env, copyVars, launchVars, prefsVars>>

-----------------------------------------------------------------------------
(* Preferences store                                                       *)

\* Option<T>
None    == [some |-> FALSE, val |-> ""]
Some(v) == [some |-> TRUE,  val |-> v]

\* JSON values of a document: a member is absent, or a boolean, a string
\* or null.
JAbsent  == [t |-> "absent", b |-> FALSE, s |-> ""]
JNull    == [t |-> "null",   b |-> FALSE, s |-> ""]
JBool(b) == [t |-> "bool",   b |-> b,     s |-> ""]
JStr(s)  == [t |-> "str",    b |-> FALSE, s |-> s]

BoolKeys == {"openOnStartup", "closeToTray", "minimizeToTray"}
StrKeys  == {"installDir", "installerType"}
Keys     == BoolKeys \cup StrKeys

\* preferences.json: missing, not JSON, or a JSON object.
MissingFile == [kind |-> "missing", doc |-> [k \in Keys |-> JAbsent]]
GarbageFile == [kind |-> "garbage", doc |-> [k \in Keys |-> JAbsent]]
DocFile(d)  == [kind |-> "doc", doc |-> d]

\* HubPreferences::default()
DefaultPrefs ==
  [open_on_startup |-> FALSE, close_to_tray |-> FALSE, minimize_to_tray |-> FALSE,
   install_dir |-> None, installer_type |-> None]

\* serde: a bool member with #[serde(default)] is false when absent and an
\* error when it is not a boolean; an Option<String> member is None when
\* absent or null and an error when it is not a string.
BoolMemberOk(j) == j.t \in {"absent", "bool"}
StrMemberOk(j)  == j.t \in {"absent", "null", "str"}
BoolMember(j)   == IF j.t = "bool" THEN j.b ELSE FALSE
StrMember(j)    == IF j.t = "str" THEN Some(j.s) ELSE None

\* Variant of FromSlice that takes a member of the wrong type as absent
\* instead of giving up the whole document.
FromSlice_Lenient(file) ==
  IF file.kind = "doc"
  THEN [open_on_startup  |-> BoolMember(file.doc["openOnStartup"]),
        close_to_tray    |-> BoolMember(file.doc["closeToTray"]),
        minimize_to_tray |-> BoolMember(file.doc["minimizeToTray"]),
        install_dir      |-> StrMember(file.doc["installDir"]),
        installer_type   |-> StrMember(file.doc["installerType"])]
  ELSE DefaultPrefs

\* serde_json::from_slice(&data).unwrap_or_default()
FromSlice(file) ==
  IF /\ file.kind = "doc"
     /\ \A k \in BoolKeys : BoolMemberOk(file.doc[k])
     /\ \A k \in StrKeys : StrMemberOk(file.doc[k])
  THEN [open_on_startup  |-> BoolMember(file.doc["openOnStartup"]),
        close_to_tray    |-> BoolMember(file.doc["closeToTray"]),
        minimize_to_tray |-> BoolMember(file.doc["minimizeToTray"]),
        install_dir      |-> StrMember(file.doc["installDir"]),
        installer_type   |-> StrMember(file.doc["installerType"])]
  ELSE DefaultPrefs

\* serde_json::to_vec_pretty(prefs): camelCase members, the Option members
\* skipped when None.
ToVecPretty(p) ==
  DocFile([k \in Keys |->
    CASE k = "openOnStartup"  -> JBool(p.open_on_startup)
      [] k = "closeToTray"    -> JBool(p.close_to_tray)
      [] k = "minimizeToTray" -> JBool(p.minimize_to_tray)
      [] k = "installDir"     -> IF p.install_dir.some THEN JStr(p.install_dir.val) ELSE JAbsent
      [] OTHER                -> IF p.installer_type.some THEN JStr(p.installer_type.val) ELSE JAbsent])

\* load_hub_preferences(): defaults when there is no local data dir or the
\* file cannot be read.
load_hub_preferences(ldd, file) ==
  IF ~ldd THEN DefaultPrefs
  ELSE IF file.kind = "missing" THEN DefaultPrefs
  ELSE FromSlice(file)

\* HubPreferencesUpdate: three Option<bool>.
NoneB    == [some |-> FALSE, val |-> FALSE]
SomeB(b) == [some |-> TRUE,  val |-> b]
OptBools == {NoneB, SomeB(TRUE), SomeB(FALSE)}
Updates  == [open_on_startup : OptBools, close_to_tray : OptBools,
             minimize_to_tray : OptBools]
NoUpdate == [open_on_startup |-> NoneB, close_to_tray |-> NoneB,
             minimize_to_tray |-> NoneB]

\* Variant of ApplyUpdate that takes an absent flag as false.
ApplyUpdate_AbsentIsFalse(p, u) ==
  [p EXCEPT !.open_on_startup  = u.open_on_startup.some  /\ u.open_on_startup.val,
            !.close_to_tray    = u.close_to_tray.some    /\ u.close_to_tray.val,
            !.minimize_to_tray = u.minimize_to_tray.some /\ u.minimize_to_tray.val]

\* The three `if let Some(value) = update.<flag> { prefs.<flag> = value; }`.
ApplyUpdate(p, u) ==
  [p EXCEPT !.open_on_startup  = IF u.open_on_startup.some  THEN u.open_on_startup.val  ELSE @,
            !.close_to_tray    = IF u.close_to_tray.some    THEN u.close_to_tray.val    ELSE @,
            !.minimize_to_tray = IF u.minimize_to_tray.some THEN u.minimize_to_tray.val ELSE @]

\* How write_hub_preferences can end.  A failed std::fs::write may already
\* have truncated the file.
WriteOutcomes == {"ok", "nodir", "mkdir_err", "write_err", "write_err_truncated"}

\* write_hub_preferences(prefs).  Yields [file, ok].
write_hub_preferences(ldd, file, p, outcome) ==
  IF ~ldd THEN [file |-> file, ok |-> FALSE]
  ELSE IF outcome = "mkdir_err" THEN [file |-> file, ok |-> FALSE]
  ELSE IF outcome = "write_err" THEN [file |-> file, ok |-> FALSE]
  ELSE IF outcome = "write_err_truncated" THEN [file |-> GarbageFile, ok |-> FALSE]
  ELSE [file |-> ToVecPretty(p), ok |-> TRUE]

\* std::fs::read(&prefs_path): a file that is there but cannot be read
\* gives Err as a missing one does.
ReadPrefs(file, readErr) == IF readErr THEN MissingFile ELSE file

\* get_hub_preferences: Ok(load_hub_preferences()).
get_hub_preferences ==
  /\ Idle
  /\ \E readErr \in IF localDataDir /\ prefsFile.kind # "missing"
                    THEN BOOLEAN ELSE {FALSE} :
       /\ result' = Ok(load_hub_preferences(localDataDir, ReadPrefs(prefsFile, readErr)))
       /\ op' = [name |-> "get_hub_preferences", readErr |-> readErr]
  /\ emitted' = <<>>
  /\ steps' = <<>>
  /\ UNCHANGED <<prev, copyVars, launchVars, instVars, prefsVars>>

\* The calls of set_hub_preferences that can be in flight.
Calls == {1, 2}

\* set_hub_preferences, line 81 to 90: load and merge.
SetLoad(c, u) ==
  /\ window # "closed"
  /\ pc[c] = "idle"
  /\ prefs'  = [prefs EXCEPT ![c] = ApplyUpdate(load_hub_preferences(localDataDir, prefsFile), u)]
  /\ update' = [update EXCEPT ![c] = u]
  /\ ret'    = [ret EXCEPT ![c] = "none"]
  /\ pc'     = [pc EXCEPT ![c] = "merged"]
  /\ op'     = [name |-> "set_load"]
  /\ UNCHANGED <<prefsFile, localDataDir, systemTray, cache, window, lastRet>>
  /\ UNCHANGED <<result, emitted, steps, prev, copyVars, launchVars, instVars>>

\* Variant of SetWrite that refreshes the cache before it writes the file.
SetWrite_CacheFirst(c) ==
  /\ window # "closed"
  /\ pc[c] = "merged"
  /\ cache' = prefs[c]
  /\ \E outcome \in WriteOutcomes :
       /\ (outcome = "nodir") = ~localDataDir
       /\ LET w == write_hub_preferences(localDataDir, prefsFile, prefs[c], outcome)
          IN /\ prefsFile' = w.file
             /\ IF w.ok
                THEN /\ pc' = [pc EXCEPT ![c] = "wrote"]
                     /\ UNCHANGED <<ret, prefs>>
                ELSE /\ pc'    = [pc EXCEPT ![c] = "idle"]
                     /\ ret'   = [ret EXCEPT ![c] = "err"]
                     /\ prefs' = [prefs EXCEPT ![c] = DefaultPrefs]
  /\ op' = [name |-> "set_write"]
  /\ UNCHANGED <<localDataDir, systemTray, update, window, lastRet>>
  /\ UNCHANGED <<result, emitted, steps, prev, copyVars, launchVars, instVars>>

\* set_hub_preferences, line 91: write_hub_preferences(&prefs)?
SetWrite(c) ==
  /\ window # "closed"
  /\ pc[c] = "merged"
  /\ \E outcome \in WriteOutcomes :
       /\ (outcome = "nodir") = ~localDataDir
       /\ LET w == write_hub_preferences(localDataDir, prefsFile, prefs[c], outcome)
          IN /\ prefsFile' = w.file
             /\ IF w.ok
                THEN /\ pc' = [pc EXCEPT ![c] = "wrote"]
                     /\ UNCHANGED <<ret, prefs>>
                ELSE /\ pc'    = [pc EXCEPT ![c] = "idle"]
                     /\ ret'   = [ret EXCEPT ![c] = "err"]
                     /\ prefs' = [prefs EXCEPT ![c] = DefaultPrefs]
  /\ op' = [name |-> "set_write"]
  /\ UNCHANGED <<localDataDir, systemTray, cache, update, window, lastRet>>
  /\ UNCHANGED <<result, emitted, steps, prev, copyVars, launchVars, instVars>>

\* Variant of SetCache that returns without refreshing the cache.
SetCache_NoRefresh(c) ==
  /\ window # "closed"
  /\ pc[c] = "wrote"
  /\ lastRet' = Some(prefs[c])
  /\ ret'     = [ret EXCEPT ![c] = "ok"]
  /\ pc'      = [pc EXCEPT ![c] = "idle"]
  /\ prefs'   = [prefs EXCEPT ![c] = DefaultPrefs]
  /\ op'      = [name |-> "set_return"]
  /\ UNCHANGED <<prefsFile, localDataDir, systemTray, cache, update, window>>
  /\ UNCHANGED <<result, emitted, steps, prev, copyVars, launchVars, instVars>>

\* set_hub_preferences, line 92 to 95: refresh the cache under its lock
\* and return Ok(prefs).
SetCache(c) ==
  /\ window # "closed"
  /\ pc[c] = "wrote"
  /\ cache'   = prefs[c]
  /\ lastRet' = Some(prefs[c])
  /\ ret'     = [ret EXCEPT ![c] = "ok"]
  /\ pc'      = [pc EXCEPT ![c] = "idle"]
  /\ prefs'   = [prefs EXCEPT ![c] = DefaultPrefs]
  /\ op'      = [name |-> "set_return"]
  /\ UNCHANGED <<prefsFile, localDataDir, systemTray, update, window>>
  /\ UNCHANGED <<result, emitted, steps, prev, copyVars, launchVars, instVars>>

\* on_window_event, CloseRequested: with the system tray and close_to_tray
\* the window is hidden and the close prevented, otherwise it closes.
CloseRequested ==
  /\ window \in {"visible", "minimized"}
  /\ window' = IF systemTray /\ cache.close_to_tray THEN "hidden" ELSE "closed"
  /\ op' = [name |-> "CloseRequested"]
  /\ UNCHANGED <<prefsFile, localDataDir, systemTray, cache, pc, update, prefs, ret, lastRet>>
  /\ UNCHANGED <<result, emitted, steps, prev, copyVars, launchVars, instVars>>

\* on_window_event, Resized: a minimized window is hidden when
\* minimize_to_tray is set and the build has the system tray.
Resized(is_minimized) ==
  /\ window \in {"visible", "minimized"}
  /\ window' = IF cache.minimize_to_tray /\ systemTray /\ is_minimized THEN "hidden"
               ELSE IF is_minimized THEN "minimized" ELSE "visible"
  /\ op' = [name |-> "Resized", is_minimized |-> is_minimized]
  /\ UNCHANGED <<prefsFile, localDataDir, systemTray, cache, pc, update, prefs, ret, lastRet>>
  /\ UNCHANGED <<result, emitted, steps, prev, copyVars, launchVars, instVars>>

\* on_system_tray_event, "show" / left click: window.show().
TrayShow ==
  /\ systemTray
  /\ window = "hidden"
  /\ window' = "visible"
  /\ op' = [name |-> "TrayShow"]
  /\ UNCHANGED <<prefsFile, localDataDir, systemTray, cache, pc, update, prefs, ret, lastRet>>
  /\ UNCHANGED <<result, emitted, steps, prev, copyVars, launchVars, instVars>>

-----------------------------------------------------------------------------
(* Dev launcher: run_dev_app                                               *)

Cwds          == {"C:/dev/app"}
Tokens        == {"npm", "start"}
MaxCommandLen == 2
Commands      == SeqsUpTo(Tokens, MaxCommandLen)
\* The model follows the children of at most MaxProcs spawns.
MaxProcs      == 2

\* Variant of RunDevApp without the test for an empty command list.
RunDevApp_NoEmptyCheck(ps, cwd, command, spawnErr) ==
  LET cmd == [program |-> "cmd", args |-> <<"/c">> \o command, cwd |-> cwd]
  IN IF spawnErr
     THEN [procs |-> ps, result |-> Err("spawn")]
     ELSE [procs |-> Append(ps, cmd), result |-> Ok(<<>>)]

\* run_dev_app in the Windows build: `cmd /c <command...>` started in cwd;
\* the child is not waited for.  Yields [procs, result].
RunDevApp(ps, cwd, command, spawnErr) ==
  IF command = <<>>
  THEN [procs |-> ps, result |-> Err("Missing dev command.")]
  ELSE LET cmd == [program |-> "cmd", args |-> <<"/c">> \o command, cwd |-> cwd]
       IN IF spawnErr
          THEN [procs |-> ps, result |-> Err("spawn")]
          ELSE [procs |-> Append(ps, cmd), result |-> Ok(<<>>)]

run_dev_app(cwd, command) ==
  /\ Idle
  /\ Len(procs) < MaxProcs
  /\ \E spawnErr \in IF command = <<>> THEN {FALSE} ELSE BOOLEAN :
       LET r == RunDevApp(procs, cwd, command, spawnErr)
       IN /\ procs'  = r.procs
          /\ result' = r.result
          /\ op'     = [name |-> "run_dev_app", cwd |-> cwd, command |-> command,
                        spawnErr |-> spawnErr]
  /\ emitted' = <<>>
  /\ steps' = <<>>
  /\ UNCHANGED <<prev, copyVars, instVars, prefsVars>>

-----------------------------------------------------------------------------
(* Specifications                                                          *)

\* Values of the variables a specification does not use.
IdleObs   == /\ op = NoOp /\ result = NoResult /\ emitted = <<>> /\ steps = <<>>
             /\ prev = NoPrev
IdleCopy  == files = [p \in FilePaths |-> Absent]
IdleInst  == /\ dirs = [d \in InstallDirs |-> NoDir]
             /\ shortcuts = [s \in ShortcutPaths |-> NoShortcut]
             /\ folder = [k \in Kinds |-> k = "desktop"]
             /\ env = [desktop |-> TRUE, appdata |-> TRUE]
IdlePrefs == /\ prefsFile = MissingFile /\ localDataDir = TRUE /\ systemTray = TRUE
             /\ cache = DefaultPrefs
             /\ pc = [c \in Calls |-> "idle"]
             /\ update = [c \in Calls |-> NoUpdate]
             /\ prefs = [c \in Calls |-> DefaultPrefs]
             /\ ret = [c \in Calls |-> "none"]
             /\ window = "visible"
             /\ lastRet = None
IdleLaunch == procs = <<>>

\* --- payload acquirer ---
InitCopy == /\ IdleObs /\ IdleInst /\ IdlePrefs /\ IdleLaunch
            /\ files \in [FilePaths -> FileStates]
NextCopy ==
  \/ \E app_id \in AppIds, source \in FileDirs \X SourceNames, destination_dir \in FileDirs,
        fault \in CopyFaults :
       copy_installer(app_id, source, destination_dir, fault)
  \/ Deliver
SpecCopy == InitCopy /\ [][NextCopy]_vars

\* --- payload acquirer: download ---
InitDownload == /\ IdleObs /\ IdleInst /\ IdlePrefs /\ IdleLaunch
                /\ files = [p \in DownloadPaths |-> Absent]
NextDownload ==
  \/ \E app_id \in AppIds, url \in Urls, destination_dir \in DownloadDirs :
       download_installer(app_id, url, destination_dir)
  \/ Deliver
SpecDownload == InitDownload /\ [][NextDownload]_vars

\* --- orchestrator, shortcut manager, uninstaller ---
\* A fresh machine: nothing installed, no shortcut, the desktop folder
\* there and the vendor's start-menu folder not yet.
InitInstall == /\ IdleObs /\ IdleCopy /\ IdlePrefs /\ IdleLaunch
               /\ dirs = [d \in InstallDirs |-> NoDir]
               /\ shortcuts = [s \in ShortcutPaths |-> NoShortcut]
               /\ folder = [k \in Kinds |-> k = "desktop"]
               /\ env \in [desktop : BOOLEAN, appdata : BOOLEAN]
NextInstall ==
  \/ \E app_id \in AppIds, installer_path \in InstallerPaths, install_dir \in InstallDirs,
        exe_name \in ExeNames, app_name \in AppNames, desk \in BOOLEAN, start \in BOOLEAN :
       install_msi_payload(app_id, installer_path, install_dir, exe_name, app_name, desk, start)
  \/ \E exe_path \in InstallDirs \X ExeNames, app_name \in AppNames,
        desk \in BOOLEAN, start \in BOOLEAN :
       create_shortcuts(exe_path, app_name, desk, start)
  \/ \E install_dir \in InstallDirs, app_name \in AppNames :
       uninstall_app(install_dir, app_name)
  \/ Deliver
SpecInstall == InitInstall /\ [][NextInstall]_vars

\* --- preferences store and window handler ---
\* preferences.json as the process finds it at start.
InitDocs ==
  {d \in [Keys -> {JAbsent, JNull, JBool(TRUE), JBool(FALSE), JStr("D:/Apps"), JStr("msi")}] :
     /\ d["openOnStartup"].t  \in {"absent", "bool"}
     /\ d["closeToTray"].t    \in {"absent", "bool"}
     /\ d["minimizeToTray"].t \in {"absent", "bool", "null"}
     /\ d["installDir"]       \in {JAbsent, JNull, JStr("D:/Apps"), JBool(TRUE)}
     /\ d["installerType"]    \in {JAbsent, JStr("msi")}}
InitFiles == {MissingFile, GarbageFile} \cup {DocFile(d) : d \in InitDocs}

\* main(): the cache starts as load_hub_preferences().
InitPrefs == /\ IdleObs /\ IdleCopy /\ IdleInst /\ IdleLaunch
             /\ localDataDir \in BOOLEAN
             /\ systemTray \in BOOLEAN
             /\ prefsFile \in InitFiles
             /\ cache = load_hub_preferences(localDataDir, prefsFile)
             /\ pc = [c \in Calls |-> "idle"]
             /\ update = [c \in Calls |-> NoUpdate]
             /\ prefs = [c \in Calls |-> DefaultPrefs]
             /\ ret = [c \in Calls |-> "none"]
             /\ window = "visible"
             /\ lastRet = None
\* One call at a time, every update.
SeqCalls == {1}
NextPrefs ==
  \/ \E c \in SeqCalls, u \in Updates : SetLoad(c, u)
  \/ \E c \in SeqCalls : SetWrite(c)
  \/ \E c \in SeqCalls : SetCache(c)
  \/ CloseRequested
  \/ \E is_minimized \in BOOLEAN : Resized(is_minimized)
  \/ TrayShow
SpecPrefs == InitPrefs /\ [][NextPrefs]_vars

\* --- preferences store: reading ---
NextLoad ==
  \/ get_hub_preferences
  \/ Deliver
SpecLoad == InitPrefs /\ [][NextLoad]_vars

\* --- dev launcher ---
InitLaunch == /\ IdleObs /\ IdleCopy /\ IdleInst /\ IdlePrefs
              /\ procs = <<>>
NextLaunch ==
  \/ \E cwd \in Cwds, command \in Commands : run_dev_app(cwd, command)
  \/ Deliver
SpecLaunch == InitLaunch /\ [][NextLaunch]_vars

\* --- preferences store: two calls of set_hub_preferences in flight ---
\* Each of the two calls is made once and sets one flag; their steps (load
\* and merge, write, refresh of the cache) interleave freely: only the
\* refresh is made under the lock of AppState.prefs.
FlagRecords == {p \in [open_on_startup : BOOLEAN, close_to_tray : BOOLEAN,
                       minimize_to_tray : BOOLEAN,
                       install_dir : {None}, installer_type : {None}] : TRUE}
ConcFiles   == {MissingFile, GarbageFile} \cup {ToVecPretty(p) : p \in FlagRecords}
SetsOneFlag(u) ==
  Cardinality({f \in {"open_on_startup", "close_to_tray", "minimize_to_tray"} :
                 u[f].some}) = 1
ConcUpdates == {u \in Updates : SetsOneFlag(u)}
InitConc == /\ IdleObs /\ IdleCopy /\ IdleInst /\ IdleLaunch
            /\ localDataDir = TRUE
            /\ systemTray = TRUE
            /\ prefsFile \in ConcFiles
            /\ cache = load_hub_preferences(localDataDir, prefsFile)
            /\ pc = [c \in Calls |-> "idle"]
            /\ update = [c \in Calls |-> NoUpdate]
            /\ prefs = [c \in Calls |-> DefaultPrefs]
            /\ ret = [c \in Calls |-> "none"]
            /\ window = "visible"
            /\ lastRet = None
NextConc ==
  \/ \E c \in Calls, u \in ConcUpdates : ret[c] = "none" /\ SetLoad(c, u)
  \/ \E c \in Calls : SetWrite(c)
  \/ \E c \in Calls : SetCache(c)
SpecConc == InitConc /\ [][NextConc]_vars

-----------------------------------------------------------------------------
(* Properties                                                              *)

Last(q)          == q[Len(q)]
StepIdx(act)     == {i \in DOMAIN steps : steps[i].act = act}
Attempted(kind)  == \E i \in StepIdx("create_shortcut") : steps[i].arg = kind
Wanted(kind)     == IF kind = "desktop" THEN op.desk ELSE op.start
EmittedOne       == \E i \in DOMAIN emitted : FracEq(emitted[i].progress, One)
IsInstall        == op.name = "install_msi_payload"
IsUninstall      == op.name = "uninstall_app"

\* C1: when install_msi_payload fails in validation, in the creation of the
\* install directory or in extraction, it returns the originating error,
\* creates no shortcut and emits no later progress value (no 0.85 after a
\* failed extraction, never 1.0); with a missing installer it emits nothing
\* and does not create install_dir.
C1_FailureAborts ==
  IsInstall =>
    LET kind == InstallerFile(op.installer_path)
    IN /\ kind = "missing" =>
            /\ result = Err("Installer not found.")
            /\ emitted = <<>>
            /\ StepIdx("create_dir_all") = {}
            /\ StepIdx("create_shortcut") = {}
       /\ (kind # "missing" /\ op.fault.mkdir) =>
            /\ result = Err("create_dir_all")
            /\ emitted = <<>>
            /\ StepIdx("create_shortcut") = {}
       /\ (~op.fault.mkdir /\ (kind = "notmsi" \/ (kind = "msi" /\ op.fault.to # "ok"))) =>
            /\ result.status = "err"
            /\ \A i \in DOMAIN emitted : FracEq(emitted[i].progress, Frac(1, 10))
            /\ StepIdx("create_shortcut") = {}

C3_CopyProgressAndContent ==
  [][(/\ op'.name = "copy_installer"
      /\ result'.status = "ok"
      /\ Len(files[op'.source].data) > 0)
     => LET N    == Len(files[op'.source].data)
            dest == <<op'.destination_dir, op'.source[2]>>
        IN /\ Len(emitted') = op'.reads
           /\ Len(emitted') = (N + BufferLen - 1) \div BufferLen
           /\ \A i \in DOMAIN emitted' :
                /\ emitted'[i].appId = op'.app_id
                /\ FracEq(emitted'[i].progress, Frac(Min(i * BufferLen, N), N))
                /\ i > 1 => FracLeq(emitted'[i - 1].progress, emitted'[i].progress)
           /\ emitted' # <<>> /\ FracEq(Last(emitted').progress, One)
           /\ files'[dest] = [exists |-> TRUE, data |-> files[op'.source].data]
    ]_vars

\* C4: copy_installer on an existing source of size zero succeeds, emits
\* exactly one progress event, of value 1.0, and leaves a destination of
\* length zero.
C4_EmptySourceOneEvent ==
  [][(/\ op'.name = "copy_installer"
      /\ op'.source[2] # ".."
      /\ files[op'.source] = [exists |-> TRUE, data |-> <<>>]
      /\ op'.fault.kind = "none")
     => /\ result'.status = "ok"
        /\ Len(emitted') = 1
        /\ FracEq(emitted'[1].progress, One)
        /\ files'[<<op'.destination_dir, op'.source[2]>>] = [exists |-> TRUE, data |-> <<>>]
    ]_vars

\* C5: a successful install_msi_payload goes through Validating, Preparing,
\* Extracting, Linking, Done in that order with no step repeated, and emits
\* exactly 0.1, 0.85, 1.0 for its application id: 0.1 after install_dir is
\* created and before the extraction starts, 0.85 after the extraction and
\* before any shortcut, 1.0 last.
Phase(st) ==
  CASE st.act = "exists"          -> 1
    [] st.act = "create_dir_all"  -> 2
    [] st.act = "from_path"       -> 3
    [] st.act = "to"              -> 3
    [] st.act = "create_shortcut" -> 4
    [] st.act = "emit"            -> IF st.arg = "0.1" THEN 2 ELSE IF st.arg = "0.85" THEN 3 ELSE 5
EmitIdx(arg) == {i \in StepIdx("emit") : steps[i].arg = arg}
C5_SuccessfulInstallOrder ==
  (IsInstall /\ result.status = "ok") =>
    /\ Len(emitted) = 3
    /\ \A i \in 1..3 : emitted[i].appId = op.app_id
    /\ FracEq(emitted[1].progress, Frac(1, 10))
    /\ FracEq(emitted[2].progress, Frac(85, 100))
    /\ FracEq(emitted[3].progress, One)
    /\ \A i \in DOMAIN steps : i > 1 => Phase(steps[i - 1]) <= Phase(steps[i])
    /\ {1, 2, 3, 5} \subseteq {Phase(steps[i]) : i \in DOMAIN steps}
    /\ \A a \in {"exists", "create_dir_all", "from_path", "to"} : Cardinality(StepIdx(a)) = 1
    /\ \A k \in Kinds : Cardinality({i \in StepIdx("create_shortcut") : steps[i].arg = k}) <= 1
    /\ \A x \in {"0.1", "0.85", "1.0"} : Cardinality(EmitIdx(x)) = 1
    /\ \A i \in StepIdx("create_dir_all"), j \in EmitIdx("0.1"), k \in StepIdx("from_path") :
         i < j /\ j < k
    /\ \A i \in StepIdx("to"), j \in EmitIdx("0.85") :
         /\ i < j
         /\ \A k \in StepIdx("create_shortcut") : j < k
    /\ EmitIdx("1.0") = {Len(steps)}
    /\ dirs[op.install_dir].exists

\* A successful install that made both shortcuts.
C5_Witness ==
  /\ IsInstall /\ result.status = "ok"
  /\ \A k \in Kinds : \E i \in StepIdx("create_shortcut") :
       steps[i].arg = k /\ steps[i].res = "created"

\* C6: a successful set_hub_preferences returns and persists a record in
\* which every flag present in the update has the update's value and every
\* field absent from it (the other flags, the install directory, the
\* installer type) has the value of the record that was on disk; the install
\* directory and the installer type are never changed.
PriorIsRecord ==
  /\ localDataDir
  /\ prefsFile.kind = "doc"
  /\ \A k \in BoolKeys : prefsFile.doc[k].t \in {"absent", "bool"}
  /\ \A k \in StrKeys : prefsFile.doc[k].t \in {"absent", "null", "str"}
PriorFlag(k) == PriorIsRecord /\ prefsFile.doc[k] = JBool(TRUE)
PriorStr(k)  == IF PriorIsRecord /\ prefsFile.doc[k].t = "str"
                THEN Some(prefsFile.doc[k].s) ELSE None
Flag(prior, u) == IF u.some THEN u.val ELSE prior
C6_SetKeepsAbsentFields ==
  [][\A c \in Calls :
       /\ (pc[c] = "idle" /\ pc'[c] = "merged") =>
            /\ prefs'[c].open_on_startup  = Flag(PriorFlag("openOnStartup"), update'[c].open_on_startup)
            /\ prefs'[c].close_to_tray    = Flag(PriorFlag("closeToTray"), update'[c].close_to_tray)
            /\ prefs'[c].minimize_to_tray = Flag(PriorFlag("minimizeToTray"), update'[c].minimize_to_tray)
            /\ prefs'[c].install_dir      = PriorStr("installDir")
            /\ prefs'[c].installer_type   = PriorStr("installerType")
       /\ (pc[c] # "idle" /\ pc'[c] # "idle") =>
            /\ prefs'[c] = prefs[c]
            /\ update'[c] = update[c]
       /\ (pc[c] = "merged" /\ pc'[c] = "wrote") =>
            /\ prefsFile'.kind = "doc"
            /\ prefsFile'.doc["openOnStartup"]  = JBool(prefs[c].open_on_startup)
            /\ prefsFile'.doc["closeToTray"]    = JBool(prefs[c].close_to_tray)
            /\ prefsFile'.doc["minimizeToTray"] = JBool(prefs[c].minimize_to_tray)
            /\ prefsFile'.doc["installDir"] =
                 IF prefs[c].install_dir.some THEN JStr(prefs[c].install_dir.val) ELSE JAbsent
            /\ prefsFile'.doc["installerType"] =
                 IF prefs[c].installer_type.some THEN JStr(prefs[c].installer_type.val) ELSE JAbsent
            /\ load_hub_preferences(localDataDir, prefsFile') = prefs[c]
       /\ (pc[c] = "wrote" /\ pc'[c] = "idle") =>
            /\ ret'[c] = "ok"
            /\ lastRet' = Some(prefs[c])
            /\ update'[c] = update[c]
    ]_vars

\* An update with only closeToTray has returned; the flag openOnStartup and
\* the install directory of the prior record are in the returned and
\* persisted record.
C6_Witness ==
  \E c \in Calls :
    /\ pc[c] = "idle" /\ ret[c] = "ok"
    /\ update[c] = [NoUpdate EXCEPT !.close_to_tray = SomeB(TRUE)]
    /\ lastRet.some
    /\ lastRet.val.close_to_tray /\ lastRet.val.open_on_startup
    /\ ~lastRet.val.minimize_to_tray
    /\ lastRet.val.install_dir = Some("D:/Apps")
    /\ prefsFile.kind = "doc" /\ prefsFile.doc["installDir"] = JStr("D:/Apps")
    /\ prefsFile.doc["openOnStartup"] = JBool(TRUE)

\* C7: when set_hub_preferences has returned success, the shared cache holds
\* the record it returned and persisted, and a close or resize event of the
\* main window handled after that is decided by that record's
\* close_to_tray / minimize_to_tray.
C7_CacheIsReturnedRecord ==
  [][/\ lastRet'.some => cache' = lastRet'.val
     /\ op'.name = "set_return" =>
          /\ lastRet'.some
          /\ load_hub_preferences(localDataDir', prefsFile') = cache'
     /\ (op'.name = "CloseRequested" /\ lastRet.some /\ systemTray) =>
          (window' = "hidden") = lastRet.val.close_to_tray
     /\ (op'.name = "Resized" /\ lastRet.some /\ systemTray /\ op'.is_minimized) =>
          (window' = "hidden") = lastRet.val.minimize_to_tray
    ]_vars

\* A call that set close_to_tray has returned, and the close request that
\* followed hid the window, although the process started with the flag off.
C7_Witness ==
  /\ op.name = "CloseRequested"
  /\ window = "hidden"
  /\ lastRet.some /\ lastRet.val.close_to_tray
  /\ \E c \in Calls : ret[c] = "ok" /\ update[c].close_to_tray = SomeB(TRUE)

\* C8 as stated: after a successful uninstall_app, a second call with the
\* same arguments succeeds and leaves neither the directory nor any of the
\* two shortcuts.
SecondUninstall ==
  /\ IsUninstall
  /\ prev = [name |-> "uninstall_app", args |-> <<op.install_dir, op.app_name>>,
             status |-> "ok"]
C8_SecondUninstallLeavesNothing ==
  SecondUninstall =>
    /\ result.status = "ok"
    /\ ~dirs[op.install_dir].exists
    /\ \A k \in Kinds : ~shortcuts[ShortcutPath(k, op.app_name)].exists

\* C8 amended: after a successful uninstall_app, a second call with the same
\* arguments succeeds, the directory does not exist, and a derived shortcut
\* exists only if its removal failed (a failed removal is ignored); the
\* absence of the directory or of a shortcut is never an error: the only
\* error is a failed removal of an existing directory.
C8_SecondUninstallSucceeds ==
  /\ SecondUninstall =>
       /\ result.status = "ok"
       /\ ~dirs[op.install_dir].exists
       /\ \A k \in Kinds : shortcuts[ShortcutPath(k, op.app_name)].exists => op.fault.rm[k]
  /\ (IsUninstall /\ result.status # "ok") =>
       /\ op.fault.rmdir
       /\ \E i \in StepIdx("remove_dir_all") : steps[i].res = "err"

\* The second of two uninstalls in a row: it found nothing to remove.
C8_Witness ==
  /\ SecondUninstall
  /\ result.status = "ok"
  /\ steps = <<>>
  /\ \A k \in Kinds : ~shortcuts[ShortcutPath(k, op.app_name)].exists

\* C9: when install_dir exists and its removal fails, uninstall_app returns
\* an error and no shortcut is removed or changed; a shortcut is removed
\* only when the directory was absent or was removed.
C9_FailedRemovalKeepsShortcuts ==
  [][op'.name = "uninstall_app" =>
       /\ (dirs[op'.install_dir].exists /\ op'.fault.rmdir) =>
            /\ result'.status = "err"
            /\ shortcuts' = shortcuts
            /\ \A i \in DOMAIN steps' : steps'[i].act # "remove_file"
       /\ \A i \in DOMAIN steps' :
            steps'[i].act = "remove_file" =>
              /\ ~dirs'[op'.install_dir].exists
              /\ \A j \in DOMAIN steps' :
                   steps'[j].act = "remove_dir_all" => (j < i /\ steps'[j].res = "ok")
    ]_vars

\* A failed uninstall with both shortcuts of the application still there.
C9_Witness ==
  /\ IsUninstall
  /\ result.status = "err"
  /\ dirs[op.install_dir].exists
  /\ \A k \in Kinds : shortcuts[ShortcutPath(k, op.app_name)].exists

\* C10: when install_msi_payload returns success on a valid payload with
\* both shortcut flags set and both base directories resolvable, install_dir
\* exists and holds the payload's files, and both shortcuts exist with target
\* install_dir/exe_name and working directory install_dir.
C10_SuccessMeansInstalledAndLinked ==
  (/\ IsInstall
   /\ result.status = "ok"
   /\ InstallerFile(op.installer_path) = "msi"
   /\ op.desk /\ op.start
   /\ env.desktop /\ env.appdata)
  => /\ dirs[op.install_dir].exists
     /\ PayloadFiles \subseteq dirs[op.install_dir].files
     /\ \A k \in Kinds :
          shortcuts[ShortcutPath(k, op.app_name)] =
            [exists |-> TRUE, target |-> <<op.install_dir, op.exe_name>>,
             workdir |-> op.install_dir]

\* The shortcut paths the creating commands derive for an application name,
\* and the paths uninstall_app looks at.
CreatedPaths(app_name) == {ShortcutPath(k, app_name) : k \in Kinds}
RemovedPaths(app_name) == {RemovedShortcutPath(k, app_name) : k \in Kinds}

\* C11 as stated: the paths at which shortcuts are created for an app_name
\* are the paths uninstall_app removes, so that after uninstalling with the
\* same app_name no shortcut is left at either derived path.
C11_UninstallLeavesNoShortcut ==
  (IsUninstall /\ result.status = "ok") =>
    /\ CreatedPaths(op.app_name) = RemovedPaths(op.app_name)
    /\ \A k \in Kinds : ~shortcuts[ShortcutPath(k, op.app_name)].exists

\* C11 amended: uninstall_app looks at exactly the paths at which
\* create_shortcuts and install_msi_payload save the shortcuts of the same
\* app_name and touches no other shortcut; after an uninstall that returned
\* success a shortcut is left at a derived path only if its removal failed
\* (that failure is dropped).
C11_SamePathsRemovedUnlessFailure ==
  [][op'.name = "uninstall_app" =>
       /\ CreatedPaths(op'.app_name) = RemovedPaths(op'.app_name)
       /\ \A p \in ShortcutPaths \ CreatedPaths(op'.app_name) :
             shortcuts'[p] = shortcuts[p]
       /\ result'.status = "ok" =>
            \A k \in Kinds :
               shortcuts'[ShortcutPath(k, op'.app_name)].exists => op'.fault.rm[k]]_vars

\* C11 witness: an uninstall that found and removed both shortcuts created
\* for its app_name.
C11_Witness ==
  /\ IsUninstall /\ result.status = "ok"
  /\ \A k \in Kinds : \E i \in StepIdx("remove_file") :
        steps[i].arg = k /\ steps[i].res = "ok"
  /\ \A k \in Kinds : ~shortcuts[ShortcutPath(k, op.app_name)].exists

\* C12: at the moment a shortcut is created, by create_shortcuts or by the
\* linking step of install_msi_payload, its target is an existing file.
C12_TargetExistsAtCreation ==
  (IsInstall \/ op.name = "create_shortcuts") =>
    LET target == IF IsInstall THEN <<op.install_dir, op.exe_name>> ELSE op.exe_path
    IN \A i \in StepIdx("create_shortcut") :
          steps[i].res = "created" => ExeExists(dirs, target)

\* The linking step of install_msi_payload was reached with a requested
\* shortcut kind whose base directory does not resolve.
LinkingWithUnresolved ==
  /\ IsInstall
  /\ EmitIdx("0.85") # {}
  /\ \E k \in Kinds : Wanted(k) /\ ~BaseResolves(env, k)

IsDownload      == op.name = "download_installer"
DownloadDest    == <<op.destination_dir, UrlFileName(op.url)>>
\* The response arrived with a success status: the body is being copied.
DownloadCopying ==
  /\ IsDownload
  /\ op.fault.kind \notin {"create_dir_all", "send", "create"}
  /\ IsSuccess(op.response.status)

\* C13: in download_installer, with a known content length every emitted
\* progress value lies in [0, 1] and the values never decrease; with an
\* unknown content length no progress event is emitted, and the download
\* (when no read, write or flush fails) still returns success with the
\* destination file holding exactly the bytes of the response body.
C13_DownloadProgress ==
  DownloadCopying =>
    /\ op.response.length.known =>
         /\ \A i \in DOMAIN emitted :
               /\ emitted[i].appId = op.app_id
               /\ FracLeq(Frac(0, 1), emitted[i].progress)
               /\ FracLeq(emitted[i].progress, One)
         /\ \A i, j \in DOMAIN emitted :
               i <= j => FracLeq(emitted[i].progress, emitted[j].progress)
    /\ ~op.response.length.known =>
         /\ emitted = <<>>
         /\ op.fault.kind = "none" =>
              /\ result = Ok(DownloadDest)
              /\ files[DownloadDest] = [exists |-> TRUE, data |-> op.response.body]

\* C13 witness: a body of unknown length, longer than one read, downloaded
\* in full without any progress event.
C13_Witness ==
  /\ DownloadCopying
  /\ ~op.response.length.known
  /\ Len(op.response.body) > DownloadBufferLen
  /\ op.reads >= 2
  /\ result.status = "ok"
  /\ emitted = <<>>
  /\ files[DownloadDest].data = op.response.body

\* C14: when the status of the response is not a success, download_installer
\* returns an error that carries the status code, emits no progress event
\* and neither creates nor truncates the destination file.
C14_BadStatusTouchesNothing ==
  [][(/\ op'.name = "download_installer"
      /\ op'.fault.kind \notin {"create_dir_all", "send"}
      /\ ~(op'.response.status >= 200 /\ op'.response.status <= 299)) =>
       /\ result' = Err(StatusError(op'.response.status))
       /\ \A s \in Statuses \ {op'.response.status} : result'.err # StatusError(s)
       /\ emitted' = <<>>
       /\ files' = files]_vars

\* C14 witness: a 404 for a destination that holds an earlier download; the
\* file is still there with its bytes.
C14_Witness ==
  /\ IsDownload
  /\ op.response.status = 404
  /\ result = Err(StatusError(404))
  /\ files[DownloadDest].exists
  /\ files[DownloadDest].data # <<>>

\* C15: get_hub_preferences (load_hub_preferences) never returns an error;
\* when there is no local data directory, or the preferences file is
\* missing, cannot be read or cannot be parsed, it returns the all-default
\* record (three flags false, no install directory, no installer type); it
\* never changes the file.
C15_LoadNeverFails ==
  [][op'.name = "get_hub_preferences" =>
       /\ result'.status = "ok"
       /\ (~PriorIsRecord \/ op'.readErr) =>
            result'.value = [open_on_startup |-> FALSE, close_to_tray |-> FALSE,
                             minimize_to_tray |-> FALSE,
                             install_dir |-> None, installer_type |-> None]
       /\ prefsFile' = prefsFile]_vars

\* C15 witness: a file whose closeToTray is true and whose installDir is not
\* a string is loaded as the all-default record.
C15_Witness ==
  /\ op.name = "get_hub_preferences"
  /\ localDataDir /\ ~op.readErr
  /\ prefsFile.kind = "doc"
  /\ prefsFile.doc["closeToTray"] = JBool(TRUE)
  /\ prefsFile.doc["installDir"] = JBool(TRUE)
  /\ result.status = "ok"
  /\ ~result.value.close_to_tray

\* C17: run_dev_app called with an empty command list returns the
\* empty-command error and spawns no process; a process is spawned only by a
\* call whose command list has at least one token.
C17_EmptyCommandSpawnsNothing ==
  [][/\ (op'.name = "run_dev_app" /\ op'.command = <<>>) =>
          /\ result' = Err("Missing dev command.")
          /\ procs' = procs
     /\ procs' # procs =>
          /\ op'.name = "run_dev_app"
          /\ Len(op'.command) >= 1
          /\ Len(procs') = Len(procs) + 1]_vars

\* C17 witness: a call with an empty command list, refused while the child
\* of an earlier call is there.
C17_Witness ==
  /\ op.name = "run_dev_app"
  /\ op.command = <<>>
  /\ result = Err("Missing dev command.")
  /\ Len(procs) = 1

\* Both calls of set_hub_preferences have returned success.
BothReturnedOk == \A c \in Calls : pc[c] = "idle" /\ ret[c] = "ok"
\* The flag an update sets, and the value it sets it to.
FlagSetBy(u) == CHOOSE f \in {"open_on_startup", "close_to_tray", "minimize_to_tray"} :
                   u[f].some

\* C18: under any interleaving of concurrently running set_hub_preferences
\* calls, once all of them have returned successfully the cache equals the
\* record stored in the preferences file.
C18_CacheEqualsDisk ==
  BothReturnedOk => prefsFile = ToVecPretty(cache)

\* C19: no update is lost: when two calls that set different flags have
\* both returned success, the record on disk and the cache hold both flags'
\* new values.
C19_NoLostUpdate ==
  (BothReturnedOk /\ FlagSetBy(update[1]) # FlagSetBy(update[2])) =>
    \A c \in Calls :
       LET f == FlagSetBy(update[c])
       IN /\ cache[f] = update[c][f].val
          /\ load_hub_preferences(localDataDir, prefsFile)[f] = update[c][f].val

\* C20: when write_hub_preferences fails in set_hub_preferences, the call
\* returns an error and the cache (and with it what the window handler
\* acts on) stays as it was; the cache changes only in the step after a
\* write that succeeded, and then to the record that was written.
C20_FailedWriteKeepsCache ==
  [][/\ (\E c \in Calls : pc[c] = "merged" /\ pc'[c] = "idle") =>
          /\ \E c \in Calls : pc[c] = "merged" /\ ret'[c] = "err"
          /\ cache' = cache
          /\ lastRet' = lastRet
     /\ cache' # cache =>
          \E c \in Calls :
             /\ pc[c] = "wrote" /\ ret'[c] = "ok"
             /\ prefsFile = ToVecPretty(cache')]_vars

\* C20 witness: a call whose update would have changed the cache has
\* returned an error after a write that truncated the file.
C20_Witness ==
  /\ op.name = "set_write"
  /\ ret[1] = "err"
  /\ ApplyUpdate(cache, update[1]) # cache
  /\ prefsFile = GarbageFile

====
